---- MODULE Spec2Model ----
(***************************************************************************)
(* Application review workflow of nkh0925/app-backend.                     *)
(*                                                                         *)
(* The model covers the mutating HTTP handlers of the repository:          *)
(*   client.js  /application/submit, /application/update,                  *)
(*              /application/cancel      (authenticated customer routes)   *)
(*   user.js    /application/submit, /application/update,                  *)
(*              /application/cancel      (unauthenticated routes)          *)
(*   audit.js   /operate                 (auditor/admin decision)          *)
(* over the two MySQL tables application_info and audit_log.  Every        *)
(* handler runs in its own transaction on its own pooled connection; each  *)
(* `await connection.query(...)` is one step of the model.  Writes of a     *)
(* transaction are buffered in the request (w, l) and reach the committed  *)
(* tables only in Commit; SELECT ... FOR UPDATE takes the row lock that    *)
(* is held until commit or rollback.                                       *)
(***************************************************************************)
EXTENDS Integers, Sequences, FiniteSets, TLC

\* ---------------------------------------------------------------- bounds
MaxApps == 2
MaxReqs == 2
NumProcs == 2
\* audit_log rows after which no further batch of requests is issued
MaxLog == 4

Procs  == 1..NumProcs
AppIds == 1..MaxApps

\* connections of the mysql2 pool (createPool connectionLimit)
connectionLimit == 10

\* ---------------------------------------------------------------- values
NULL  == "NULL"
Undef == "undefined"

Customers  == {"u1", "u2"}
Auditors   == {"a1"}
Admins     == {"ad1"}
\* a principal whose token payload carries no role
NoRole     == {"x1"}
Principals == Customers \cup Auditors \cup Admins \cup NoRole

\* role stored in the JWT payload of each principal
Role(u) == IF u \in Auditors THEN "auditor"
           ELSE IF u \in Admins THEN "admin"
           ELSE IF u \in NoRole THEN Undef ELSE "customer"

\* remarks an auditor may send with /operate (Joi: string, '' allowed, optional)
RemarkInputs == {Undef, "", " ", "photo unreadable"}
IdNumbers    == {"n1", "n2"}

\* The two values id_type may take (the resident identity card and the
\* residence permit for Hong Kong, Macao and Taiwan residents)
ResidentId == "resident-ID"
Permit     == "permit"
IdTypes    == {ResidentId, Permit}

NoRow == [user_id |-> NULL, status |-> "NONE", comments |-> NULL,
          name |-> NULL, phone_number |-> NULL, id_number |-> NULL,
          id_type |-> NULL, id_front_photo_url |-> NULL]
NoEntry == [application_id |-> 0, user_id |-> NULL, action |-> "NONE", remarks |-> NULL]
NoPatch == [name |-> Undef, phone_number |-> Undef, id_type |-> Undef, id_number |-> Undef,
            birthday |-> Undef, id_front_photo_url |-> Undef]
NoRes   == [code |-> 0, kind |-> "none", info |-> NULL, appId |-> 0]
NoBase  == [row |-> NoRow, log |-> << >>]

Res(code, kind, info) == [code |-> code, kind |-> kind, info |-> info, appId |-> 0]

VARIABLES
  apps,       \* committed application_info rows, by id (NoRow: no such row)
  audit_log,  \* committed audit_log rows, in insertion order
  nextId,     \* AUTO_INCREMENT counter of application_info
  lock,       \* InnoDB row lock holder of each application_info row (0: free)
  req,        \* the request each worker is handling
  nreq,       \* requests issued so far
  hist,       \* history: the database at the start and the requests answered
  users       \* committed rows of the users table, in insertion order

vars == <<apps, audit_log, nextId, lock, req, nreq, hist, users>>

Idle == [pc |-> "idle", op |-> "none", user |-> NULL, id |-> 0, action |-> NULL,
         comments |-> NULL, patch |-> NoPatch, row |-> NoRow, w |-> NoRow,
         l |-> NoEntry, err |-> NULL, res |-> NoRes, base |-> NoBase,
         conn |-> 0]

\* the audit_log rows of one application, oldest first
RECURSIVE AppLog(_, _)
AppLog(log, id) ==
  IF log = << >> THEN << >>
  ELSE IF Head(log).application_id = id
       THEN <<Head(log)>> \o AppLog(Tail(log), id)
       ELSE AppLog(Tail(log), id)

\* ------------------------------------------------- JavaScript value helpers
\* `!c` of JavaScript for the values a remark can take
Falsy(c) == c \in {Undef, NULL, ""}

\* String.prototype.trim on the remark values of the model
Trim(c) == IF c = " " THEN "" ELSE c

\* `comments || null`
OrNull(c) == IF Falsy(c) THEN NULL ELSE c

\* faulty variant: the remarks test without the trim
RemarksMissingNoTrim(c) == Falsy(c)

\* `!comments || comments.trim() === ''`
RemarksMissing(c) == Falsy(c) \/ Trim(c) = ""

Pass  == Res(0, "pass", NULL)
Throw == Res(0, "throw", NULL)

NotFound          == Res(404, "NotFound", NULL)
Forbidden         == Res(403, "Forbidden", NULL)
IllegalTransition(status) == Res(403, "IllegalTransition", status)
RemarksRequired   == Res(400, "ValidationError", NULL)
NoEffectiveChange == Res(400, "NoEffectiveChange", NULL)
RoleDenied        == Res(403, "RoleDenied", NULL)
StorageFailure    == Res(500, "StorageFailure", NULL)
DuplicateIdentity == Res(409, "DuplicateIdentity", NULL)
Operated(action)  == Res(200, "OK", action)
Updated           == Res(200, "OK", "RESUBMIT")
Cancelled         == Res(200, "OK", "CANCEL")
Created(id)       == [code |-> 201, kind |-> "OK", info |-> "SUBMIT", appId |-> id]

\* ------------------------------------------------ checks after the SELECT
\* faulty variant: the checks of /operate without the status check
OperateCheckAnyStatus(row, action, comments) ==
  IF row = NoRow THEN NotFound
  ELSE IF action = "REJECTED" /\ RemarksMissing(comments) THEN RemarksRequired
  ELSE Pass

\* audit.js /operate: the checks between SELECT ... FOR UPDATE and the UPDATE
OperateCheck(row, action, comments) ==
  IF row = NoRow THEN NotFound
  ELSE IF row.status # "PENDING" THEN IllegalTransition(row.status)
  ELSE IF action = "REJECTED" /\ RemarksMissing(comments) THEN RemarksRequired
  ELSE Pass

\* client.js /application/update: fields of the patch that differ from the row
PatchFields == {"name", "phone_number", "id_type", "id_number", "id_front_photo_url"}
ModifiedFields(patch, row) ==
  {f \in PatchFields : patch[f] # Undef /\ patch[f] # row[f]}

\* faulty variant: the ownership test comes before the test for a missing row
ClientUpdateCheckOwnerFirst(row, user, patch) ==
  IF row.user_id # user THEN Forbidden
  ELSE IF row = NoRow THEN NotFound
  ELSE IF row.status # "REJECTED" THEN IllegalTransition(row.status)
  ELSE IF patch.birthday # Undef THEN Throw
  ELSE IF ModifiedFields(patch, row) = {} THEN NoEffectiveChange
  ELSE Pass

\* client.js /application/update: the checks after the SELECT.  A patch that
\* carries birthday calls formatDate, which no file defines: ReferenceError.
ClientUpdateCheck(row, user, patch) ==
  IF row = NoRow THEN NotFound
  ELSE IF row.user_id # user THEN Forbidden
  ELSE IF row.status # "REJECTED" THEN IllegalTransition(row.status)
  ELSE IF patch.birthday # Undef THEN Throw
  ELSE IF ModifiedFields(patch, row) = {} THEN NoEffectiveChange
  ELSE Pass

\* faulty variant: the checks of the legacy update without the status check
UserUpdateCheckAnyStatus(row) ==
  IF row = NoRow THEN NotFound ELSE Pass

\* user.js /application/update
UserUpdateCheck(row) ==
  IF row = NoRow THEN NotFound
  ELSE IF row.status # "REJECTED" THEN IllegalTransition(row.status)
  ELSE Pass

\* faulty variant: a cancel that is also accepted from APPROVED
ClientCancelFromAny == {"PENDING", "REJECTED", "APPROVED"}

\* client.js /application/cancel: source statuses a cancel is accepted from
ClientCancelFrom == {"PENDING", "REJECTED"}
ClientCancelCheck(row, user) ==
  IF row = NoRow THEN NotFound
  ELSE IF row.user_id # user THEN Forbidden
  ELSE IF row.status \notin ClientCancelFrom THEN IllegalTransition(row.status)
  ELSE Pass

\* client.js /application/cancel: source statuses a cancel is accepted from
\* user.js /application/cancel
UserCancelFrom == {"PENDING"}
UserCancelCheck(row) ==
  IF row = NoRow THEN NotFound
  ELSE IF row.status \notin UserCancelFrom THEN IllegalTransition(row.status)
  ELSE Pass

Check(r, row) ==
  CASE r.op = "operate"      -> OperateCheck(row, r.action, r.comments)
    [] r.op = "clientUpdate" -> ClientUpdateCheck(row, r.user, r.patch)
    [] r.op = "userUpdate"   -> UserUpdateCheck(row)
    [] r.op = "clientCancel" -> ClientCancelCheck(row, r.user)
    [] r.op = "userCancel"   -> UserCancelCheck(row)

\* ------------------------------------------------------- the row written
\* faulty variant: an UPDATE that sets the status and leaves the comments
OperateWriteStatusOnly(cur, action, comments) ==
  [cur EXCEPT !.status = action]

\* audit.js /operate: UPDATE ... SET status = ?, comments = ?
OperateWrite(cur, action, comments) ==
  [cur EXCEPT !.status = action, !.comments = OrNull(comments)]

\* faulty variant: every field of the schema is written, given or not
ClientUpdateWriteAll(cur, patch) ==
  [f \in DOMAIN cur |->
     IF f \in PatchFields THEN patch[f]
     ELSE IF f = "status" THEN "PENDING"
     ELSE IF f = "comments" THEN NULL
     ELSE cur[f]]

\* faulty variant: the modified fields are written, the status is left as it is
ClientUpdateWriteKeepsStatus(cur, patch) ==
  LET m == ModifiedFields(patch, cur)
  IN  [f \in DOMAIN cur |-> IF f \in m THEN patch[f] ELSE cur[f]]

\* client.js /application/update: UPDATE of the modified fields, status, comments
ClientUpdateWrite(cur, patch) ==
  LET m == ModifiedFields(patch, cur)
  IN  [f \in DOMAIN cur |->
         IF f \in m THEN patch[f]
         ELSE IF f = "status" THEN "PENDING"
         ELSE IF f = "comments" THEN NULL
         ELSE cur[f]]

\* faulty variant: the UPDATE of the resubmit leaves the status as it is
UserUpdateWriteKeepsStatus(cur, patch) ==
  [cur EXCEPT !.name = patch.name, !.id_front_photo_url = patch.id_front_photo_url]

\* user.js /application/update: UPDATE ... SET name = ?, ..., status = 'PENDING'
UserUpdateWrite(cur, patch) ==
  [cur EXCEPT !.name = patch.name, !.id_front_photo_url = patch.id_front_photo_url,
              !.status = "PENDING"]

\* faulty variant: the cancellation also clears the comments
CancelWriteClearsComments(cur) == [cur EXCEPT !.status = "CANCELLED", !.comments = NULL]

\* both /application/cancel handlers: UPDATE ... SET status = 'CANCELLED'
CancelWrite(cur) == [cur EXCEPT !.status = "CANCELLED"]

RowWrite(r, cur) ==
  CASE r.op = "operate"      -> OperateWrite(cur, r.action, r.comments)
    [] r.op = "clientUpdate" -> ClientUpdateWrite(cur, r.patch)
    [] r.op = "userUpdate"   -> UserUpdateWrite(cur, r.patch)
    [] r.op \in {"clientCancel", "userCancel"} -> CancelWrite(cur)

\* faulty variant: the INSERT names no owner
SubmitRowNoOwner(r) ==
  [user_id |-> NULL, status |-> "PENDING", comments |-> NULL,
   name |-> r.patch.name, phone_number |-> r.patch.phone_number,
   id_type |-> r.patch.id_type, id_number |-> r.patch.id_number,
   id_front_photo_url |-> r.patch.id_front_photo_url]

\* the application_info row an INSERT creates (status and comments take the
\* column defaults)
SubmitRow(r) ==
  [user_id |-> r.user, status |-> "PENDING", comments |-> NULL,
   name |-> r.patch.name, phone_number |-> r.patch.phone_number,
   id_type |-> r.patch.id_type, id_number |-> r.patch.id_number,
   id_front_photo_url |-> r.patch.id_front_photo_url]

\* ------------------------------------------------ the audit_log row written
Entry(id, actor, action, remarks) ==
  [application_id |-> id, user_id |-> actor, action |-> action, remarks |-> remarks]

\* audit.js /operate logs req.user_id, which authenticate never sets (it sets
\* req.user): the bound parameter is undefined and is written as NULL
OperateEntry(r) == Entry(r.id, NULL, r.action, OrNull(r.comments))

\* faulty variant: an audit entry that records the new status as its action
LogEntryStatus(r) ==
  Entry(r.id, r.user, IF r.w = NoRow THEN "NONE" ELSE r.w.status, NULL)

LogEntry(r) ==
  CASE r.op = "operate"      -> OperateEntry(r)
    [] r.op = "clientUpdate" -> Entry(r.id, r.user, "RESUBMIT", "resubmitted by customer")
    [] r.op = "userUpdate"   -> Entry(r.id, "customer", "RESUBMIT", "resubmitted by customer")
    [] r.op = "clientCancel" -> Entry(r.id, r.user, "CANCEL", "cancelled by customer")
    [] r.op = "userCancel"   -> Entry(r.id, "customer", "CANCEL", "cancelled by customer")
    [] r.op = "clientSubmit" -> Entry(r.id, r.user, "SUBMIT", "submitted online")
    [] r.op = "userSubmit"   -> Entry(r.id, "system", "SUBMIT", "submitted online")


\* ------------------------------------------------------------ the storage
\* faulty variant: a SELECT that does not wait for the row lock
RowFreeNoWait(id, p) == TRUE

\* faulty variant: a lock on the whole table
RowFreeTable(id, p) == \A i \in AppIds : lock[i] \in {0, p}

\* SELECT ... WHERE id = ? FOR UPDATE waits while another transaction holds
\* the lock of that row
RowFree(id, p) == lock[id] = 0

\* faulty variant: the end of the transaction leaves its locks in place
ReleaseNone(p) == lock

\* row locks are released when the transaction ends (commit or rollback)
Release(p) == [i \in AppIds |-> IF lock[i] = p THEN 0 ELSE lock[i]]

\* id_number values whose unique-index entries transaction q has written and
\* not yet committed
IndexTouched(q) ==
  IF req[q].w = NoRow THEN {}
  ELSE IF apps[req[q].id].id_number = req[q].w.id_number THEN {}
  ELSE {apps[req[q].id].id_number, req[q].w.id_number} \ {NULL}

\* an INSERT or UPDATE of id_number n waits for uncommitted entries of n
IndexBusy(n, p) == \E q \in Procs \ {p} : n \in IndexTouched(q)

\* faulty variant: a table without the unique index
DupEntryNever(rows, n, self) == FALSE

\* ER_DUP_ENTRY: the unique index on application_info.id_number
DupEntry(rows, n, self) ==
  \E i \in AppIds \ {self} : rows[i] # NoRow /\ rows[i].id_number = n

\* ------------------------------------------------------------- requests
\* faulty variant: a router without the authorize middleware
AuthorizedAny(u) == TRUE

\* authMiddleware authorize(['auditor', 'admin']) in front of audit.js
Authorized(u) == Role(u) \in {"auditor", "admin"}

\* audit.js POST /operate, body {application_id, action, comments}
OperateReq(u, id, action, c) ==
  [Idle EXCEPT !.pc = "select", !.conn = 1, !.op = "operate", !.user = u, !.id = id,
               !.action = action, !.comments = c]

\* client.js POST /application/update
ClientUpdateReq(u, id, patch) ==
  [Idle EXCEPT !.pc = "select", !.conn = 1, !.op = "clientUpdate", !.user = u, !.id = id,
               !.patch = patch]

\* user.js POST /application/update
UserUpdateReq(id, name) ==
  [Idle EXCEPT !.pc = "select", !.conn = 1, !.op = "userUpdate", !.id = id,
               !.patch = [NoPatch EXCEPT !.name = name, !.id_front_photo_url = "f1"]]

\* client.js POST /application/cancel
ClientCancelReq(u, id) ==
  [Idle EXCEPT !.pc = "select", !.conn = 1, !.op = "clientCancel", !.user = u, !.id = id]

\* user.js POST /application/cancel
UserCancelReq(id) ==
  [Idle EXCEPT !.pc = "select", !.conn = 1, !.op = "userCancel", !.id = id]

\* client.js POST /application/submit
ClientSubmitReq(u, n) ==
  [Idle EXCEPT !.pc = "insert", !.conn = 1, !.op = "clientSubmit", !.user = u,
               !.patch = [NoPatch EXCEPT !.name = "a", !.phone_number = "p1",
                                         !.id_type = ResidentId, !.id_number = n,
                                         !.id_front_photo_url = "f1"]]

\* user.js POST /application/submit (app.js carries the same handler)
UserSubmitReq(n) ==
  [Idle EXCEPT !.pc = "insert", !.conn = 1, !.op = "userSubmit",
               !.patch = [NoPatch EXCEPT !.name = "a", !.phone_number = "p1",
                                         !.id_type = ResidentId, !.id_number = n,
                                         !.id_front_photo_url = "f1"]]

SubmitOps == {"clientSubmit", "userSubmit"}

\* the success response of each handler
Success(r) ==
  CASE r.op = "operate" -> Operated(r.action)
    [] r.op \in {"clientUpdate", "userUpdate"} -> Updated
    [] r.op \in {"clientCancel", "userCancel"} -> Cancelled
    [] r.op \in SubmitOps -> Created(r.id)

\* faulty variant: a catch block that reports every error as a server error
CatchResGeneric(r) == StorageFailure

\* the response of the catch block
CatchRes(r) ==
  IF r.op \in SubmitOps /\ r.err = "ER_DUP_ENTRY"
  THEN DuplicateIdentity
  ELSE StorageFailure

\* ------------------------------------------------ a handler running alone
\* The database and the response after request r ran from start to end with
\* no other request in flight and no storage failure.
Serial(db, r) ==
  IF r.op \in SubmitOps
  THEN IF DupEntry(db.apps, r.patch.id_number, 0)
       THEN [db |-> [db EXCEPT !.nextId = @ + 1], res |-> DuplicateIdentity]
       ELSE LET rr == [r EXCEPT !.id = db.nextId]
            IN  [db |-> [apps      |-> [db.apps EXCEPT ![db.nextId] = SubmitRow(rr)],
                         audit_log |-> Append(db.audit_log, LogEntry(rr)),
                         nextId    |-> db.nextId + 1],
                 res |-> Success(rr)]
  ELSE IF r.op = "operate" /\ ~Authorized(r.user)
  THEN [db |-> db, res |-> RoleDenied]
  ELSE LET row == db.apps[r.id]
           c   == Check(r, row)
           w   == RowWrite(r, row)
       IN  IF c = Throw THEN [db |-> db, res |-> StorageFailure]
           ELSE IF c # Pass THEN [db |-> db, res |-> c]
           ELSE IF w.id_number # row.id_number /\ DupEntry(db.apps, w.id_number, r.id)
           THEN [db |-> db, res |-> StorageFailure]
           ELSE [db |-> [db EXCEPT !.apps[r.id] = w,
                                   !.audit_log = Append(@, LogEntry(r))],
                 res |-> Success(r)]

\* ------------------------------------------------------------ the handlers
\* dbPool.getConnection() resolves while the pool has a free connection
PoolFree == Cardinality({q \in Procs : req[q].conn = 1}) < connectionLimit

CanStart(p) == req[p].pc \in {"idle", "done"} /\ nreq < MaxReqs /\ PoolFree

\* what is left of a request once its response is sent
DoneReq(r, res) == [Idle EXCEPT !.pc = "done", !.res = res]

Issue(p, r) ==
  /\ req'  = [req EXCEPT ![p] = r]
  /\ nreq' = nreq + 1
  /\ UNCHANGED <<apps, audit_log, nextId, lock>>

\* audit.js POST /operate: authenticate, authorize, up to beginTransaction
StartOperate(p, u, id, action, c) ==
  /\ CanStart(p)
  /\ LET r == OperateReq(u, id, action, c)
     IN  Issue(p, IF Authorized(u) THEN r ELSE DoneReq(r, RoleDenied))

\* client.js POST /application/update: up to beginTransaction
StartClientUpdate(p, u, id, patch) ==
  /\ CanStart(p)
  /\ Issue(p, ClientUpdateReq(u, id, patch))

\* user.js POST /application/update: up to beginTransaction
StartUserUpdate(p, id, name) ==
  /\ CanStart(p)
  /\ Issue(p, UserUpdateReq(id, name))

\* client.js POST /application/cancel: up to beginTransaction
StartClientCancel(p, u, id) ==
  /\ CanStart(p)
  /\ Issue(p, ClientCancelReq(u, id))

\* user.js POST /application/cancel: up to beginTransaction
StartUserCancel(p, id) ==
  /\ CanStart(p)
  /\ Issue(p, UserCancelReq(id))

\* ids the AUTO_INCREMENT counter can still hand out within the bound
IdsLeft == MaxApps + 1 - nextId - Cardinality({q \in Procs : req[q].pc = "insert"})

\* client.js POST /application/submit: up to beginTransaction
StartClientSubmit(p, u, n) ==
  /\ CanStart(p)
  /\ IdsLeft > 0
  /\ Issue(p, ClientSubmitReq(u, n))

\* user.js POST /application/submit: up to beginTransaction
StartUserSubmit(p, n) ==
  /\ CanStart(p)
  /\ IdsLeft > 0
  /\ Issue(p, UserSubmitReq(n))

\* faulty variant: a plain SELECT: no wait and no row lock
SelectNoLock(p) ==
  LET r   == req[p]
      row == apps[r.id]
      c   == Check(r, row)
  IN  /\ r.pc = "select"
      /\ req' = [req EXCEPT ![p] =
                  [r EXCEPT !.row  = row,
                            !.base = [row |-> row, log |-> AppLog(audit_log, r.id)],
                            !.pc   = IF c = Pass THEN "update"
                                     ELSE IF c = Throw THEN "catch" ELSE "rollback",
                            !.err  = IF c = Throw THEN "ReferenceError" ELSE NULL,
                            !.res  = IF c \in {Pass, Throw} THEN NoRes ELSE c]]
      /\ UNCHANGED <<apps, audit_log, nextId, nreq, lock>>

\* faulty variant: an early return that leaves the transaction open
RollbackKeepsLock(p) ==
  LET r == req[p]
  IN  /\ r.pc = "rollback"
      /\ req'  = [req EXCEPT ![p] = DoneReq(r, r.res)]
      /\ UNCHANGED <<apps, audit_log, nextId, nreq, lock>>

\* SELECT ... FOR UPDATE and the checks that follow it, up to the next await
Select(p) ==
  LET r   == req[p]
      row == apps[r.id]
      c   == Check(r, row)
  IN  /\ r.pc = "select"
      /\ RowFree(r.id, p)
      /\ lock' = IF row # NoRow THEN [lock EXCEPT ![r.id] = p] ELSE lock
      /\ req' = [req EXCEPT ![p] =
                  [r EXCEPT !.row  = row,
                            !.base = [row |-> row, log |-> AppLog(audit_log, r.id)],
                            !.pc   = IF c = Pass THEN "update"
                                     ELSE IF c = Throw THEN "catch" ELSE "rollback",
                            !.err  = IF c = Throw THEN "ReferenceError" ELSE NULL,
                            !.res  = IF c \in {Pass, Throw} THEN NoRes ELSE c]]
      /\ UNCHANGED <<apps, audit_log, nextId, nreq>>

\* await connection.rollback(); return res.status(4xx)...; finally release
Rollback(p) ==
  LET r == req[p]
  IN  /\ r.pc = "rollback"
      /\ lock' = Release(p)
      /\ req'  = [req EXCEPT ![p] = DoneReq(r, r.res)]
      /\ UNCHANGED <<apps, audit_log, nextId, nreq>>

\* the UPDATE application_info statement of the handler
Update(p) ==
  LET r == req[p]
      w == RowWrite(r, apps[r.id])
      n == w.id_number
      changed == n # apps[r.id].id_number
  IN  /\ r.pc = "update"
      /\ changed => ~IndexBusy(n, p)
      /\ req' = [req EXCEPT ![p] =
                  IF changed /\ DupEntry(apps, n, r.id)
                  THEN [r EXCEPT !.pc = "catch", !.err = "ER_DUP_ENTRY"]
                  ELSE [r EXCEPT !.pc = "log", !.w = w]]
      /\ UNCHANGED <<apps, audit_log, nextId, lock, nreq>>

\* the INSERT INTO application_info statement of a submit handler
Insert(p) ==
  LET r == req[p]
      n == r.patch.id_number
  IN  /\ r.pc = "insert"
      /\ nextId <= MaxApps
      /\ ~IndexBusy(n, p)
      /\ nextId' = nextId + 1
      /\ IF DupEntry(apps, n, 0)
         THEN /\ req' = [req EXCEPT ![p] = [r EXCEPT !.pc = "catch", !.err = "ER_DUP_ENTRY"]]
              /\ lock' = lock
         ELSE /\ req' = [req EXCEPT ![p] =
                          [r EXCEPT !.pc = "log", !.id = nextId, !.w = SubmitRow(r)]]
              /\ lock' = [lock EXCEPT ![nextId] = p]
      /\ UNCHANGED <<apps, audit_log, nreq>>

\* the INSERT INTO audit_log statement of the handler
InsertLog(p) ==
  LET r == req[p]
  IN  /\ r.pc = "log"
      /\ req' = [req EXCEPT ![p] = [r EXCEPT !.pc = "commit", !.l = LogEntry(r)]]
      /\ UNCHANGED <<apps, audit_log, nextId, lock, nreq>>

\* faulty variant: a commit whose audit row replaces the newest one
CommitRewrites(p) ==
  LET r == req[p]
  IN  /\ r.pc = "commit"
      /\ apps' = [apps EXCEPT ![r.id] = r.w]
      /\ audit_log' = IF audit_log = << >> THEN <<r.l>>
                       ELSE [audit_log EXCEPT ![Len(audit_log)] = r.l]
      /\ lock' = Release(p)
      /\ req'  = [req EXCEPT ![p] = DoneReq(r, Success(r))]
      /\ UNCHANGED <<nextId, nreq>>

\* await connection.commit(); res.status(200|201)...; finally release
Commit(p) ==
  LET r == req[p]
  IN  /\ r.pc = "commit"
      /\ apps' = [apps EXCEPT ![r.id] = r.w]
      /\ audit_log' = Append(audit_log, r.l)
      /\ lock' = Release(p)
      /\ req'  = [req EXCEPT ![p] = DoneReq(r, Success(r))]
      /\ UNCHANGED <<nextId, nreq>>

\* a query or the commit is rejected by the storage (connection lost, lock
\* wait timeout, ...): control passes to the handler's catch block
Fail(p) ==
  LET r == req[p]
  IN  /\ r.pc \in {"select", "insert", "update", "log", "commit"}
      /\ req' = [req EXCEPT ![p] = [r EXCEPT !.pc = "catch", !.err = "storage"]]
      /\ UNCHANGED <<apps, audit_log, nextId, lock, nreq>>

\* faulty variant: a catch block that reaches the client without rolling back the row
CatchKeepsRow(p) ==
  LET r == req[p]
  IN  /\ r.pc = "catch"
      /\ apps' = IF r.w # NoRow THEN [apps EXCEPT ![r.id] = r.w] ELSE apps
      /\ lock' = Release(p)
      /\ req'  = [req EXCEPT ![p] = DoneReq(r, CatchRes(r))]
      /\ UNCHANGED <<audit_log, nextId, nreq>>

\* catch (dbError) { await connection.rollback(); res.status(...) } finally release
Catch(p) ==
  LET r == req[p]
  IN  /\ r.pc = "catch"
      /\ lock' = Release(p)
      /\ req'  = [req EXCEPT ![p] = DoneReq(r, CatchRes(r))]
      /\ UNCHANGED <<apps, audit_log, nextId, nreq>>

\* ---------------------------------------------------------- specification
\* The empty database, and the databases a few serial histories leave behind:
\* one application submitted by u1, then rejected, approved or cancelled.
EmptyDb == [apps |-> [i \in AppIds |-> NoRow], audit_log |-> << >>, nextId |-> 1]
PendingDb   == Serial(EmptyDb, ClientSubmitReq("u1", "n1")).db
RejectedDb  == Serial(PendingDb, OperateReq("a1", 1, "REJECTED", "photo unreadable")).db
ApprovedDb  == Serial(PendingDb, OperateReq("a1", 1, "APPROVED", Undef)).db
CancelledDb == Serial(PendingDb, ClientCancelReq("u1", 1)).db
Histories == {EmptyDb, PendingDb, RejectedDb, ApprovedDb, CancelledDb}

NoHist == [db0 |-> EmptyDb, done |-> << >>]

InitDb(db) ==
  /\ apps = db.apps
  /\ audit_log = db.audit_log
  /\ nextId = db.nextId
  /\ lock = [i \in AppIds |-> 0]
  /\ req = [p \in Procs |-> Idle]
  /\ nreq = 0
  /\ users = << >>

Init == \E db \in Histories : InitDb(db) /\ hist = NoHist

\* patches of /application/update requests: phone_number is required by the
\* schema, the other fields are optional
ClientPatches ==
  {[NoPatch EXCEPT !.name = n, !.phone_number = "p1", !.id_number = i] :
     n \in {Undef, "b"}, i \in {Undef, "n2"}}
  \cup {[NoPatch EXCEPT !.phone_number = "p1", !.birthday = "1960-01-01"]}

Verdicts == {"APPROVED", "REJECTED"}

Staff == {"a1", "ad1", "u1", "x1"}

Next ==
  /\ \E p \in Procs :
       \/ \E u \in Staff, id \in AppIds, a \in Verdicts, c \in RemarkInputs :
            StartOperate(p, u, id, a, c)
       \/ \E u \in Customers, id \in AppIds, patch \in ClientPatches :
            StartClientUpdate(p, u, id, patch)
       \/ \E id \in AppIds, n \in {"a", "b"} : StartUserUpdate(p, id, n)
       \/ \E u \in Customers, id \in AppIds : StartClientCancel(p, u, id)
       \/ \E id \in AppIds : StartUserCancel(p, id)
       \/ \E u \in Customers, n \in IdNumbers : StartClientSubmit(p, u, n)
       \/ \E n \in IdNumbers : StartUserSubmit(p, n)
       \/ Select(p)
       \/ Rollback(p)
       \/ Update(p)
       \/ Insert(p)
       \/ InsertLog(p)
       \/ Commit(p)
       \/ Fail(p)
       \/ Catch(p)
  /\ UNCHANGED <<hist, users>>

Spec == Init /\ [][Next]_vars

\* ----------------------------------------------- concurrent decisions only
\* Decisions with valid remarks, all issued before any of them is answered,
\* against the one PENDING application of PendingDb; the storage does not fail.
ValidDecisions ==
  {d \in [action : Verdicts, comments : RemarkInputs] :
     d.action = "REJECTED" => d.comments = "photo unreadable"}

InitRace == InitDb(PendingDb) /\ hist = NoHist

NextRace ==
  /\ \E p \in Procs :
       \/ \E u \in Auditors \cup Admins, d \in ValidDecisions :
            /\ \A q \in Procs : req[q].pc # "done"
            /\ StartOperate(p, u, 1, d.action, d.comments)
       \/ Select(p)
       \/ Rollback(p)
       \/ Update(p)
       \/ InsertLog(p)
       \/ Commit(p)
  /\ UNCHANGED <<hist, users>>

SpecRace == InitRace /\ [][NextRace]_vars

\* ------------------------------------- mutations of existing applications
\* Cancel, resubmit and decide requests only, with the history of the answered
\* requests kept: the request as it was issued, its response, and whether
\* another request was in flight when it was answered.
Completes(p) == req[p].pc \notin {"idle", "done"} /\ req'[p].pc = "done"

AsIssued(r) ==
  [Idle EXCEPT !.pc = "select", !.conn = 1, !.op = r.op, !.user = r.user, !.id = r.id,
               !.action = r.action, !.comments = r.comments, !.patch = r.patch]

Recorded ==
  IF \E p \in Procs : Completes(p)
  THEN LET p == CHOOSE q \in Procs : Completes(q)
       IN  [hist EXCEPT !.done = Append(@,
              [r    |-> AsIssued(req[p]),
               res  |-> req'[p].res,
               conc |-> \E q \in Procs \ {p} : req[q].pc \notin {"idle", "done"}])]
  ELSE hist

InitSerial == \E db \in Histories \ {EmptyDb} : InitDb(db) /\ hist = [NoHist EXCEPT !.db0 = db]

NextSerial ==
  /\ \E p \in Procs :
       \/ \E u \in Auditors, a \in Verdicts, c \in RemarkInputs :
            StartOperate(p, u, 1, a, c)
       \/ \E u \in Customers, patch \in ClientPatches : StartClientUpdate(p, u, 1, patch)
       \/ \E n \in {"a", "b"} : StartUserUpdate(p, 1, n)
       \/ \E u \in Customers : StartClientCancel(p, u, 1)
       \/ StartUserCancel(p, 1)
       \/ Select(p)
       \/ Rollback(p)
       \/ Update(p)
       \/ InsertLog(p)
       \/ Commit(p)
       \/ Fail(p)
       \/ Catch(p)
  /\ hist' = Recorded
  /\ UNCHANGED users

SpecSerial == InitSerial /\ [][NextSerial]_vars

\* --------------------------------------------- scheduling, no storage failure
\* Every request, and a storage that rejects no statement.  A statement that
\* can run is eventually run by the event loop and the database: a waiting
\* SELECT ... FOR UPDATE or UPDATE is granted once the transaction it waits
\* for has ended.
NextLive ==
  /\ \E p \in Procs :
       \/ \E u \in Staff, id \in AppIds, a \in Verdicts, c \in RemarkInputs :
            StartOperate(p, u, id, a, c)
       \/ \E u \in Customers, id \in AppIds, patch \in ClientPatches :
            StartClientUpdate(p, u, id, patch)
       \/ \E id \in AppIds, n \in {"a", "b"} : StartUserUpdate(p, id, n)
       \/ \E u \in Customers, id \in AppIds : StartClientCancel(p, u, id)
       \/ \E id \in AppIds : StartUserCancel(p, id)
       \/ \E u \in Customers, n \in IdNumbers : StartClientSubmit(p, u, n)
       \/ \E n \in IdNumbers : StartUserSubmit(p, n)
       \/ Select(p)
       \/ Rollback(p)
       \/ Update(p)
       \/ Insert(p)
       \/ InsertLog(p)
       \/ Commit(p)
       \/ Catch(p)
  /\ UNCHANGED <<hist, users>>

Fairness ==
  \A p \in Procs :
    /\ WF_vars(Select(p) /\ UNCHANGED <<hist, users>>)
    /\ WF_vars(Rollback(p) /\ UNCHANGED <<hist, users>>)
    /\ WF_vars(Update(p) /\ UNCHANGED <<hist, users>>)
    /\ WF_vars(Insert(p) /\ UNCHANGED <<hist, users>>)
    /\ WF_vars(InsertLog(p) /\ UNCHANGED <<hist, users>>)
    /\ WF_vars(Commit(p) /\ UNCHANGED <<hist, users>>)
    /\ WF_vars(Catch(p) /\ UNCHANGED <<hist, users>>)

SpecLive == Init /\ [][NextLive]_vars /\ Fairness

TypeOK ==
  /\ nextId \in 1..(MaxApps + 1)
  /\ \A i \in AppIds : lock[i] \in Procs \cup {0}
  /\ \A p \in Procs : req[p].pc \in {"idle", "select", "rollback", "update", "insert",
                                     "log", "commit", "catch", "done",
                                     "detail", "history", "checkPhone", "insertUser",
                                     "query"}

\* ================================================================== claims
Terminal == {"APPROVED", "CANCELLED"}
InFlight(p) == req[p].pc \notin {"idle", "done"}
Quiescent == \A p \in Procs : ~InFlight(p)

\* remarks that are missing, empty or whitespace-only
Blank(c) == c \in {Undef, "", " "}

\* the request completing in this step was not hit by a storage failure
NoStorageError(r) == r.err # "storage"

DecisionEntries(id) ==
  {i \in 1..Len(audit_log) :
     audit_log[i].application_id = id /\ audit_log[i].action \in Verdicts}

\* C1: of the decide requests issued concurrently against one PENDING
\* application exactly one succeeds; every other one reads the changed status
\* under the lock and fails as an illegal transition carrying it; the final
\* status is the winner's verdict and one APPROVED/REJECTED entry is added.
C1_OneDecisionWins ==
  LET D == {p \in Procs : req[p].pc = "done"}
  IN  /\ Cardinality(DecisionEntries(1)) <= 1
      /\ (Quiescent /\ D # {}) =>
           \E w \in D :
             /\ req[w].res = Operated(apps[1].status)
             /\ apps[1].status \in Verdicts
             /\ \A q \in D \ {w} : req[q].res = IllegalTransition(apps[1].status)
             /\ Cardinality(DecisionEntries(1)) = 1
             /\ audit_log[Len(audit_log)].action = apps[1].status

C1_Witness == \A p \in Procs : req[p].pc = "done"

\* the histories a set of answered requests can be replayed in
Perms(n) == {f \in [1..n -> 1..n] : \A i, j \in 1..n : f[i] = f[j] => i = j}

Mismatch == [apps |-> [i \in AppIds |-> NoRow], audit_log |-> << >>, nextId |-> 0]

\* the database after the answered requests ran one at a time in the order
\* perm, each giving the response it gave (a request refused by the storage
\* has no effect); Mismatch when some response differs
RECURSIVE Replay(_, _, _)
Replay(db, perm, k) ==
  IF k > Len(hist.done) THEN db
  ELSE LET h == hist.done[perm[k]]
           s == Serial(db, h.r)
       IN  IF h.res = s.res THEN Replay(s.db, perm, k + 1)
           ELSE IF h.res = StorageFailure THEN Replay(db, perm, k + 1)
           ELSE Mismatch

\* C2: whenever no request is in flight, the application records, the audit
\* log and the responses of the cancel, resubmit and decide requests answered
\* so far are those of running the same requests one at a time in some order.
C2_Serializable ==
  Quiescent =>
    \E perm \in Perms(Len(hist.done)) :
      LET db == Replay(hist.db0, perm, 1)
      IN  db # Mismatch /\ db.apps = apps /\ db.audit_log = audit_log

C2_Witness ==
  /\ Quiescent
  /\ Len(hist.done) = 2
  /\ hist.done[1].conc
  /\ hist.done[1].r.id = hist.done[2].r.id
  /\ {hist.done[1].r.op, hist.done[2].r.op} = {"clientCancel", "operate"}
  /\ {hist.done[1].res.kind, hist.done[2].res.kind} = {"OK", "IllegalTransition"}

\* a transaction that has read its row under the lock and has not ended
HoldsRow(p) == req[p].pc \in {"rollback", "update", "log", "commit", "catch"}
                 /\ req[p].base # NoBase /\ req[p].row # NoRow

C3_Unobserved ==
  \A p \in Procs :
    /\ HoldsRow(p) =>
         /\ apps[req[p].id] = req[p].base.row
         /\ AppLog(audit_log, req[p].id) = req[p].base.log
    /\ (req[p].op \in SubmitOps /\ req[p].pc \in {"log", "commit", "catch"}
          /\ req[p].w # NoRow) =>
         /\ apps[req[p].id] = NoRow
         /\ AppLog(audit_log, req[p].id) = << >>

C3_EndsWhole ==
  \A p \in Procs :
    Completes(p) =>
      IF req'[p].res.kind = "OK"
      THEN /\ apps' = [apps EXCEPT ![req[p].id] = req[p].w]
           /\ audit_log' = Append(audit_log, req[p].l)
           /\ req[p].w # NoRow /\ req[p].l # NoEntry
      ELSE UNCHANGED <<apps, audit_log>>

\* C3: while a unit of work is in flight, and after a storage failure at any
\* point of it, the committed application record and the committed audit log
\* of its application are exactly as when it locked the row (a submit's row
\* and entry do not exist); the unit of work ends either with the row and its
\* audit entry committed together or with both tables unchanged.
C3_RollbackWhole == [] C3_Unobserved /\ [][C3_EndsWhole]_vars

C3_Witness ==
  \E p \in Procs :
    /\ req[p].pc = "catch" /\ req[p].err = "storage"
    /\ req[p].w # NoRow /\ req[p].w # apps[req[p].id]
    /\ req[p].l = NoEntry

\* the audit action that documents a request
ActionOf(r) ==
  CASE r.op \in SubmitOps -> "SUBMIT"
    [] r.op \in {"clientUpdate", "userUpdate"} -> "RESUBMIT"
    [] r.op \in {"clientCancel", "userCancel"} -> "CANCEL"
    [] r.op = "operate" -> r.action

C4_Step ==
  IF \E p \in Procs : Completes(p) /\ req'[p].res.kind = "OK"
  THEN \E p \in Procs :
         /\ Completes(p) /\ req'[p].res.kind = "OK"
         /\ Len(audit_log') = Len(audit_log) + 1
         /\ SubSeq(audit_log', 1, Len(audit_log)) = audit_log
         /\ audit_log'[Len(audit_log')].application_id = req[p].id
         /\ audit_log'[Len(audit_log')].action = ActionOf(req[p])
         /\ apps'[req[p].id] # apps[req[p].id]
         /\ \A i \in AppIds \ {req[p].id} : apps'[i] = apps[i]
  ELSE UNCHANGED <<apps, audit_log>>

C4_OneSubmit ==
  \A i \in AppIds :
    LET log == AppLog(audit_log, i)
    IN  IF apps[i] = NoRow THEN log = << >>
        ELSE /\ Len(log) >= 1
             /\ \A k \in 1..Len(log) : (log[k].action = "SUBMIT") <=> (k = 1)

\* C4: the audit log of an application holds one SUBMIT entry, its first, and
\* every successful request appends exactly one entry, for its application and
\* with the action SUBMIT, RESUBMIT, CANCEL or the verdict; a step in which no
\* request succeeds changes neither the applications nor the audit log.
C4_OneEntryPerAction == [] C4_OneSubmit /\ [][C4_Step]_vars

C4_Witness ==
  /\ \E p \in Procs : req[p].res.kind = "OK"
  /\ \E p \in Procs : req[p].pc = "done" /\ req[p].res.kind # "OK"
  /\ Len(AppLog(audit_log, 1)) = 3

\* C5: once the status of an application is APPROVED or CANCELLED, no step
\* changes its record or the audit entries of that application.
C5_TerminalFrozen ==
  [][\A i \in AppIds :
       (apps[i] # NoRow /\ apps[i].status \in Terminal) =>
         /\ apps'[i] = apps[i]
         /\ AppLog(audit_log', i) = AppLog(audit_log, i)]_vars

C5_Witness ==
  /\ apps[1].status = "CANCELLED"
  /\ \A p \in Procs : req[p].pc = "done" /\ req[p].res = IllegalTransition("CANCELLED")

\* C6: a decide that reads, under the lock, a status other than PENDING is
\* answered with the illegal-transition response carrying that status, which
\* is the current status of the application, and changes neither table.
C6_DecideNotPending ==
  [][\A p \in Procs :
       (/\ Completes(p)
        /\ req[p].op = "operate"
        /\ NoStorageError(req[p])
        /\ req[p].row # NoRow
        /\ req[p].row.status # "PENDING")
       => /\ req'[p].res = IllegalTransition(apps[req[p].id].status)
          /\ req'[p].res.code = 403
          /\ UNCHANGED <<apps, audit_log>>]_vars

C6_Witness ==
  \E p \in Procs :
    /\ req[p].op = "operate" /\ req[p].pc = "rollback"
    /\ req[p].res = IllegalTransition("REJECTED")

\* C7 as stated: for every existing application, whatever its status, a
\* REJECTED decision with blank remarks is answered with the validation error.
C7_AlwaysValidationError ==
  \A p \in Procs :
    (/\ req[p].op = "operate" /\ req[p].pc = "rollback"
     /\ req[p].action = "REJECTED" /\ Blank(req[p].comments)
     /\ req[p].row # NoRow)
    => req[p].res.kind = "ValidationError"

\* C7 (amended): a REJECTED decision with missing, empty or whitespace-only
\* remarks never changes the application or the audit log; it is answered
\* with the validation error when the application is PENDING, with the
\* illegal-transition error when the application has another status, and with
\* NotFound when there is no such application.
C7_BlankRejectRefused ==
  [][\A p \in Procs :
       (/\ Completes(p)
        /\ req[p].op = "operate"
        /\ req[p].action = "REJECTED" /\ Blank(req[p].comments)
        /\ NoStorageError(req[p]))
       => /\ UNCHANGED <<apps, audit_log>>
          /\ req'[p].res.kind =
               IF req[p].row = NoRow THEN "NotFound"
               ELSE IF req[p].row.status = "PENDING" THEN "ValidationError"
               ELSE "IllegalTransition"]_vars

C7_Witness ==
  \E p \in Procs :
    /\ req[p].op = "operate" /\ req[p].pc = "rollback"
    /\ req[p].action = "REJECTED" /\ req[p].comments = " "
    /\ req[p].row.status = "PENDING"
    /\ req[p].res.kind = "ValidationError" /\ req[p].res.code = 400

\* C8 as stated: a REJECTED decision with non-empty remarks, by an auditor or
\* admin, on a PENDING application succeeds and sets the status REJECTED.
C8_NonEmptySucceeds ==
  [][\A p \in Procs :
       (/\ Completes(p)
        /\ req[p].op = "operate"
        /\ req[p].action = "REJECTED" /\ req[p].comments \notin {Undef, ""}
        /\ NoStorageError(req[p])
        /\ req[p].row # NoRow /\ req[p].row.status = "PENDING")
       => /\ req'[p].res.code = 200
          /\ apps'[req[p].id].status = "REJECTED"]_vars

\* C8 (amended): a REJECTED decision whose remarks hold a character that is
\* not white space, by an auditor or admin, that reads PENDING under the lock
\* and meets no storage failure succeeds: the status becomes REJECTED, the
\* comments are the remarks, and one REJECTED entry with the remarks is
\* appended.
C8_RejectSucceeds ==
  [][\A p \in Procs :
       (/\ Completes(p)
        /\ req[p].op = "operate"
        /\ req[p].action = "REJECTED" /\ ~Blank(req[p].comments)
        /\ NoStorageError(req[p])
        /\ req[p].row # NoRow /\ req[p].row.status = "PENDING")
       => /\ req'[p].res.code = 200
          /\ apps'[req[p].id].status = "REJECTED"
          /\ apps'[req[p].id].comments = req[p].comments
          /\ Len(audit_log') = Len(audit_log) + 1
          /\ LET e == audit_log'[Len(audit_log')]
             IN  /\ e.application_id = req[p].id
                 /\ e.action = "REJECTED"
                 /\ e.remarks = req[p].comments]_vars

C8_Witness ==
  /\ \E p \in Procs : req[p].pc = "done" /\ req[p].res = Operated("REJECTED")
  /\ \E i \in AppIds : apps[i].status = "REJECTED" /\ apps[i].comments = "photo unreadable"
  /\ nreq > 0

IsCancel(r) == r.op \in {"clientCancel", "userCancel"}
Owns(r) == r.op = "clientCancel" => r.row.user_id = r.user

C10_OneCancelTable ==
  [][\A p \in Procs :
       (Completes(p) /\ IsCancel(req[p]) /\ req'[p].res.kind = "OK")
       => (/\ UserCancelCheck(req[p].row) = Pass
           /\ ClientCancelCheck(req[p].row, req[p].row.user_id) = Pass)]_vars

\* the applications, cancelled or not, that carry identity number n
Holders(n) == {i \in AppIds : apps[i] # NoRow /\ apps[i].id_number = n}
ActiveHolders(n) == {i \in Holders(n) : apps[i].status # "CANCELLED"}

\* C11: in every reachable state no two applications that are not cancelled
\* carry the same identity-document number.
C11_UniqueIdentity ==
  \A i, j \in AppIds :
    (/\ i # j
     /\ apps[i] # NoRow /\ apps[j] # NoRow
     /\ apps[i].status # "CANCELLED" /\ apps[j].status # "CANCELLED")
    => apps[i].id_number # apps[j].id_number

C11_Witness ==
  /\ \A i \in AppIds : apps[i] # NoRow /\ apps[i].status # "CANCELLED"
  /\ \E p \in Procs : req[p].pc = "catch" /\ req[p].err = "ER_DUP_ENTRY"

\* C12: a submit that is answered while an application that is not cancelled
\* carries its identity number is answered with the duplicate-identity
\* conflict (409), and neither table changes.
C12_DuplicateConflict ==
  [][\A p \in Procs :
       (/\ Completes(p)
        /\ req[p].op \in SubmitOps
        /\ NoStorageError(req[p])
        /\ ActiveHolders(req[p].patch.id_number) # {})
       => /\ req'[p].res.kind = "DuplicateIdentity"
          /\ req'[p].res.code = 409
          /\ UNCHANGED <<apps, audit_log>>]_vars

C12_Witness ==
  /\ \E p \in Procs : req[p].pc = "done" /\ req[p].res.kind = "DuplicateIdentity"
  /\ \A i \in AppIds : apps[i] # NoRow => apps[i].status # "CANCELLED"
  /\ apps[1] # NoRow

\* C13: a submit whose identity number is carried by cancelled applications
\* only succeeds and creates a new PENDING application with that number.
C13_ReuseAfterCancel ==
  [][\A p \in Procs :
       (/\ Completes(p)
        /\ req[p].op \in SubmitOps
        /\ NoStorageError(req[p])
        /\ Holders(req[p].patch.id_number) # {}
        /\ ActiveHolders(req[p].patch.id_number) = {})
       => /\ req'[p].res.kind = "OK"
          /\ \E j \in AppIds :
               /\ apps[j] = NoRow
               /\ apps'[j].status = "PENDING"
               /\ apps'[j].id_number = req[p].patch.id_number]_vars

IsResubmit(r) == r.op \in {"clientUpdate", "userUpdate"}

\* C14: a resubmit, through either entry point, succeeds only when it read
\* REJECTED, and then the status is PENDING, the comments are null and one
\* RESUBMIT entry is appended; a resubmit that read another status fails and
\* changes nothing.
C14_ResubmitGuard ==
  [][\A p \in Procs :
       (Completes(p) /\ IsResubmit(req[p])) =>
         /\ req'[p].res.kind = "OK" =>
              /\ req[p].row.status = "REJECTED"
              /\ apps'[req[p].id].status = "PENDING"
              /\ apps'[req[p].id].comments = NULL
              /\ Len(audit_log') = Len(audit_log) + 1
              /\ audit_log'[Len(audit_log')].action = "RESUBMIT"
              /\ audit_log'[Len(audit_log')].application_id = req[p].id
         /\ (req[p].row # NoRow /\ req[p].row.status # "REJECTED") =>
              /\ req'[p].res.kind # "OK"
              /\ UNCHANGED <<apps, audit_log>>]_vars

\* the fields a patch supplies with a value other than the stored one (the
\* stored birthday is not part of the row: a supplied birthday counts as new)
Differing(patch, row) ==
  {f \in {"name", "phone_number", "id_type", "id_number", "id_front_photo_url"} :
     patch[f] # Undef /\ patch[f] # row[f]}
    \cup (IF patch.birthday # Undef THEN {"birthday"} ELSE {})

\* C15: a resubmit of a REJECTED application by its owner whose patch supplies
\* only values equal to the stored ones is answered with the
\* no-effective-change error and changes nothing.
C15_NoEffectiveChange ==
  [][\A p \in Procs :
       (/\ Completes(p) /\ IsResubmit(req[p])
        /\ NoStorageError(req[p])
        /\ req[p].row # NoRow /\ req[p].row.status = "REJECTED"
        /\ (req[p].op = "clientUpdate" => req[p].row.user_id = req[p].user)
        /\ Differing(req[p].patch, req[p].row) = {})
       => /\ req'[p].res.kind = "NoEffectiveChange"
          /\ UNCHANGED <<apps, audit_log>>]_vars

\* C16: a client.js resubmit of a REJECTED application by its owner whose patch
\* changes exactly one field, to a value no other application holds, succeeds,
\* resets the status to PENDING and clears the comments.
C16_OneFieldChange ==
  [][\A p \in Procs :
       (/\ Completes(p) /\ req[p].op = "clientUpdate"
        /\ NoStorageError(req[p])
        /\ req[p].row # NoRow /\ req[p].row.status = "REJECTED"
        /\ req[p].row.user_id = req[p].user
        /\ Cardinality(Differing(req[p].patch, req[p].row)) = 1
        /\ (req[p].patch.id_number # Undef => Holders(req[p].patch.id_number) \subseteq {req[p].id}))
       => /\ req'[p].res.kind = "OK"
          /\ apps'[req[p].id].status = "PENDING"
          /\ apps'[req[p].id].comments = NULL]_vars

\* C17: a cancel or a resubmit, through any entry point, of an application the
\* caller does not own is answered Forbidden whatever the status, and changes
\* nothing.
C17_OwnerOnly ==
  [][\A p \in Procs :
       (/\ Completes(p) /\ (IsCancel(req[p]) \/ IsResubmit(req[p]))
        /\ NoStorageError(req[p])
        /\ req[p].row # NoRow
        /\ req[p].row.user_id # req[p].user)
       => /\ req'[p].res.kind = "Forbidden"
          /\ UNCHANGED <<apps, audit_log>>]_vars

ErrorKinds == {"Forbidden", "IllegalTransition", "NotFound", "ValidationError",
               "StorageFailure"}

\* C18: two responses of different kinds among Forbidden, IllegalTransition,
\* NotFound, ValidationError and StorageFailure carry different statuses.
C18_DistinctStatus ==
  \A p, q \in Procs :
    (/\ req[p].res.kind \in ErrorKinds /\ req[q].res.kind \in ErrorKinds
     /\ req[p].res.kind # req[q].res.kind)
    => req[p].res.code # req[q].res.code

Reviewers == {"a1", "ad1"}

C19_NoDecideInFlight ==
  \A p \in Procs :
    (InFlight(p) /\ req[p].op = "operate") => req[p].user \in Reviewers

C19_Step ==
  /\ \A p \in Procs :
       (req'[p] # req[p] /\ req'[p].res.kind = "RoleDenied") =>
         /\ req[p].pc \in {"idle", "done"}
         /\ UNCHANGED <<apps, audit_log, lock>>
  /\ \A i \in AppIds :
       (apps'[i] # apps[i] /\ apps'[i].status \in Verdicts) =>
         \E p \in Procs :
           /\ Completes(p) /\ req[p].op = "operate" /\ req[p].id = i
           /\ req[p].user \in Reviewers

\* C19: no decide request of a principal other than an auditor or an admin
\* (a customer, a principal without role) ever reaches the SELECT: it is
\* answered at once, with no row read or locked and no table changed, and
\* every change of a status to APPROVED or REJECTED is made by a decide of an
\* auditor or admin.
C19_DecideByReviewersOnly == [] C19_NoDecideInFlight /\ [][C19_Step]_vars

C19_Witness ==
  /\ \E p \in Procs : req[p].pc = "done" /\ req[p].res.kind = "RoleDenied"
  /\ \E p \in Procs : req[p].pc = "done" /\ req[p].res = Operated("APPROVED")

\* C20: no step modifies or removes a committed audit entry: the audit log
\* after a step has the log before it as a prefix, and so has the log of each
\* application.
C20_AppendOnly ==
  [][/\ Len(audit_log') >= Len(audit_log)
     /\ SubSeq(audit_log', 1, Len(audit_log)) = audit_log
     /\ \A i \in AppIds :
          LET old == AppLog(audit_log, i)
              new == AppLog(audit_log', i)
          IN  Len(new) >= Len(old) /\ SubSeq(new, 1, Len(old)) = old]_vars

C20_Witness ==
  /\ Len(audit_log) >= 3
  /\ audit_log[1].action = "SUBMIT"
  /\ \A p \in Procs : req[p].pc = "done" /\ req[p].res.kind = "OK"

\* C21: every committed audit entry names its actor: a decision the auditor
\* or admin who made it, a RESUBMIT or CANCEL the owning customer, a SUBMIT
\* the submitter or the system sentinel; the actor is never absent.  (The
\* literal 'customer' of the unauthenticated routes is taken as a sentinel.)
C21_ActorRecorded ==
  [][\A p \in Procs :
       (Completes(p) /\ req'[p].res.kind = "OK") =>
         LET e == audit_log'[Len(audit_log')]
         IN  /\ e.user_id # NULL
             /\ req[p].op = "operate" => e.user_id = req[p].user
             /\ (IsCancel(req[p]) \/ IsResubmit(req[p])) =>
                  e.user_id \in {req[p].row.user_id, "customer"} \ {NULL}
             /\ req[p].op \in SubmitOps =>
                  e.user_id \in {req[p].user, "system"} \ {NULL}]_vars

\* a request past its locking read holds the lock and has the committed status
C22_Locked ==
  \A p \in Procs :
    HoldsRow(p) =>
      /\ lock[req[p].id] = p
      /\ req[p].row.status = apps[req[p].id].status

C22_Step ==
  \A p \in Procs : \A i \in AppIds :
    /\ (lock[i] = p /\ lock'[i] # p) => (Completes(p) /\ lock'[i] = 0)
    /\ (lock[i] # p /\ lock'[i] = p) =>
         /\ lock[i] = 0
         /\ req[p].pc \in {"select", "insert"}
         /\ req'[p].row = apps[i]

\* C22: a request that has read its application row holds the lock of that
\* row, taken by the read itself inside its transaction, and the status it
\* validates is the committed status; the lock is given up only by the step
\* that ends the transaction and answers the request.
C22_StatusReadUnderLock == [] C22_Locked /\ [][C22_Step]_vars

C22_Witness ==
  \E p, q \in Procs :
    /\ HoldsRow(p) /\ req[p].pc = "commit"
    /\ req[q].pc = "select" /\ req[q].id = req[p].id
    /\ req[p].w.status # apps[req[p].id].status

\* C24: a request that has been answered holds no row lock and no pooled
\* connection, whatever the exit path; a request in flight holds exactly one
\* connection, and every held lock belongs to a request in flight.
C24_NothingHeldAfterResponse ==
  /\ \A p \in Procs :
       /\ req[p].pc \in {"idle", "done"} =>
            (req[p].conn = 0 /\ \A i \in AppIds : lock[i] # p)
       /\ InFlight(p) => req[p].conn = 1
  /\ \A i \in AppIds : lock[i] # 0 => InFlight(lock[i])
  /\ Cardinality({p \in Procs : req[p].conn = 1}) <= connectionLimit

C24_Witness ==
  /\ \A i \in AppIds : lock[i] = 0
  /\ \E p, q \in Procs :
       /\ req[p].pc = "done" /\ req[p].res.kind = "IllegalTransition"
       /\ req[q].pc = "done" /\ req[q].res.kind = "StorageFailure"

\* the next statement of the handler of request q
NextStep(q) ==
  Select(q) \/ Rollback(q) \/ Update(q) \/ InsertLog(q) \/ Commit(q) \/ Catch(q)

OnRecord(q) == InFlight(q) /\ (IsCancel(req[q]) \/ IsResubmit(req[q]) \/ req[q].op = "operate")

\* no other request holds the lock of the application of request q
NotLockedByOther(q) == lock[req[q].id] \in {0, q}

Collides(q) ==
  /\ req[q].pc = "update"
  /\ req[q].patch.id_number # Undef
  /\ \E p \in Procs \ {q} :
       /\ req[p].w # NoRow
       /\ req[p].w.id_number # apps[req[p].id].id_number
       /\ req[q].patch.id_number \in {req[p].w.id_number, apps[req[p].id].id_number}

DetailReq(id) == [Idle EXCEPT !.pc = "detail", !.conn = 1, !.op = "detail", !.id = id]

StartDetail(p, id) == CanStart(p) /\ Issue(p, DetailReq(id))

\* SELECT ... FROM application_info a ... WHERE a.id = ?
ReadApplication(p) ==
  LET r == req[p]
  IN  /\ r.pc = "detail"
      /\ req' = [req EXCEPT ![p] = [r EXCEPT !.pc = "history", !.row = apps[r.id]]]
      /\ UNCHANGED <<apps, audit_log, nextId, lock, nreq>>

\* created_at of the n audit_log rows of an application, oldest first: set by
\* the database at the INSERT, so never decreasing, and equal for rows written
\* within one unit of its clock
Stamps(n) == {ts \in [1..n -> 1..n] : \A i \in 1..(n - 1) : ts[i] <= ts[i + 1]}

\* ORDER BY created_at DESC: the rows in an order in which created_at never
\* increases; the order of rows with equal created_at is not specified
OrderByCreatedAtDesc(log, ts) ==
  LET n == Len(log)
  IN  {[i \in 1..n |-> log[f[i]]] :
         f \in {g \in Perms(n) : \A i \in 1..(n - 1) : ts[g[i]] >= ts[g[i + 1]]}}

HistoryResults(log) == UNION {OrderByCreatedAtDesc(log, ts) : ts \in Stamps(Len(log))}

Details(row, history) == Res(200, "OK", [details |-> row, history |-> history])

\* SELECT * FROM audit_log WHERE application_id = ? ORDER BY created_at DESC,
\* then the response: 404 when the first query found no application
ReadHistory(p) ==
  LET r == req[p]
  IN  /\ r.pc = "history"
      /\ \E h \in HistoryResults(AppLog(audit_log, r.id)) :
           req' = [req EXCEPT ![p] =
                     DoneReq(r, IF r.row = NoRow THEN NotFound ELSE Details(r.row, h))]
      /\ UNCHANGED <<apps, audit_log, nextId, lock, nreq>>

\* detail reads next to decisions and cancellations of the same applications
NextDetail ==
  /\ \E p \in Procs :
       \/ \E id \in AppIds : StartDetail(p, id)
       \/ ReadApplication(p)
       \/ ReadHistory(p)
       \/ \E u \in Auditors, id \in AppIds, d \in ValidDecisions :
            StartOperate(p, u, id, d.action, d.comments)
       \/ \E u \in Customers, id \in AppIds : StartClientCancel(p, u, id)
       \/ Select(p)
       \/ Rollback(p)
       \/ Update(p)
       \/ InsertLog(p)
       \/ Commit(p)
  /\ UNCHANGED <<hist, users>>

SpecDetail == Init /\ [][NextDetail]_vars

RECURSIVE Reverse(_)
Reverse(s) == IF s = << >> THEN << >> ELSE Append(Reverse(Tail(s)), Head(s))

\* C26: a detail read of an existing application answers with all its
\* committed audit entries, newest first (the reverse of the order in which
\* they were committed); a detail read of an unknown id answers NotFound.
C26_NewestFirst ==
  [][\A p \in Procs :
       (req[p].pc = "history" /\ req'[p].pc = "done") =>
         IF req[p].row = NoRow
         THEN req'[p].res = NotFound
         ELSE /\ req'[p].res.code = 200
              /\ req'[p].res.info.history = Reverse(AppLog(audit_log, req[p].id))]_vars

\* ------------------------------------------------- one application, end to end
\* From the empty database: customer u1 submits, auditor a1 decides, u1
\* resubmits with a new photo URL, in batches of MaxReqs requests.
PhotoPatch == [NoPatch EXCEPT !.phone_number = "p1", !.id_front_photo_url = "f2"]

InitE2E == InitDb(EmptyDb) /\ hist = NoHist

\* the next batch of requests is issued once every response is out
NextBatch ==
  /\ Quiescent
  /\ nreq = MaxReqs
  /\ Len(audit_log) < MaxLog
  /\ nreq' = 0
  /\ UNCHANGED <<apps, audit_log, nextId, lock, req>>

NextE2E ==
  /\ \/ \E p \in Procs :
          \/ StartClientSubmit(p, "u1", "n1")
          \/ \E d \in ValidDecisions : StartOperate(p, "a1", 1, d.action, d.comments)
          \/ StartClientUpdate(p, "u1", 1, PhotoPatch)
          \/ Select(p)
          \/ Rollback(p)
          \/ Update(p)
          \/ Insert(p)
          \/ InsertLog(p)
          \/ Commit(p)
          \/ Catch(p)
     \/ NextBatch
  /\ UNCHANGED <<hist, users>>

SpecE2E == InitE2E /\ [][NextE2E]_vars

LastEntry(log) == log[Len(log)]

\* the status each audit action leaves the application in
StatusAfter(action) ==
  CASE action \in {"SUBMIT", "RESUBMIT"} -> "PENDING"
    [] action \in {"APPROVED", "REJECTED"} -> action
    [] action = "CANCEL" -> "CANCELLED"

C27_StatusFollowsLog ==
  \A i \in AppIds :
    LET log == AppLog(audit_log, i)
    IN  IF apps[i] = NoRow THEN log = << >>
        ELSE /\ log # << >>
             /\ log[1].action = "SUBMIT"
             /\ apps[i].status = StatusAfter(LastEntry(log).action)

C27_Step ==
  \A p \in Procs :
    Completes(p) =>
      LET r == req[p]
          e == LastEntry(audit_log')
      IN  CASE r.op = "clientSubmit" /\ r.err = NULL ->
                 /\ req'[p].res = Created(r.id)
                 /\ apps[r.id] = NoRow
                 /\ apps'[r.id].status = "PENDING"
                 /\ audit_log' = Append(audit_log, e)
                 /\ e.application_id = r.id /\ e.action = "SUBMIT"
            [] r.op = "operate" /\ r.row.status = "PENDING" ->
                 /\ req'[p].res = Operated(r.action)
                 /\ apps'[r.id].status = r.action
                 /\ r.action = "REJECTED" =>
                      apps'[r.id].comments = r.comments /\ e.remarks = r.comments
                 /\ audit_log' = Append(audit_log, e)
                 /\ e.application_id = r.id /\ e.action = r.action
            [] /\ r.op = "clientUpdate" /\ r.row.status = "REJECTED"
               /\ r.row.id_front_photo_url # r.patch.id_front_photo_url ->
                 /\ req'[p].res = Updated
                 /\ apps'[r.id].status = "PENDING"
                 /\ apps'[r.id].id_front_photo_url = r.patch.id_front_photo_url
                 /\ audit_log' = Append(audit_log, e)
                 /\ e.application_id = r.id /\ e.action = "RESUBMIT"
            [] OTHER ->
                 /\ req'[p].res.code \notin {200, 201}
                 /\ apps' = apps
                 /\ audit_log' = audit_log

\* C27: submit, decide and the owner's resubmit each succeed on the status
\* they apply to and leave the status and the audit entry of their action: a
\* submit gives PENDING and SUBMIT, a decide on PENDING gives its verdict (a
\* rejection with its remarks), a resubmit with a new photo URL on REJECTED
\* gives PENDING and RESUBMIT, and nothing else changes an application (an
\* APPROVED one stays as it is).
C27_EndToEnd == [] C27_StatusFollowsLog /\ [][C27_Step]_vars

RECURSIVE Actions(_)
Actions(log) == IF log = << >> THEN << >> ELSE <<Head(log).action>> \o Actions(Tail(log))

C27_Witness ==
  LET log == AppLog(audit_log, 1)
  IN  /\ Actions(log) = <<"SUBMIT", "REJECTED", "RESUBMIT", "APPROVED">>
      /\ log[2].remarks = "photo unreadable"
      /\ apps[1].status = "APPROVED"
      /\ apps[1].id_front_photo_url = "f2"
      /\ Quiescent

\* ------------------------------------------------------ input validation
Digits == {"0", "1", "2", "3", "4", "5", "6", "7", "8", "9"}

Doc(region, century, yy, mmdd, seq, check) ==
  region \o century \o yy \o mmdd \o seq \o check

R11 == <<"1", "1", "0", "1", "0", "5">>
P81 == <<"8", "1", "0", "0", "0", "0">>
P82 == <<"8", "2", "0", "0", "0", "0">>
P83 == <<"8", "3", "0", "0", "0", "0">>
P84 == <<"8", "4", "0", "0", "0", "0">>
Y18 == <<"1", "8">>
Y19 == <<"1", "9">>
Y20 == <<"2", "0">>
Y21 == <<"2", "1">>
Jan1 == <<"0", "1", "0", "1">>
S1  == <<"0", "0", "1">>

\* the text of the document numbers a request may carry, by name
Samples ==
  [n1    |-> Doc(R11, Y19, <<"6", "0">>, Jan1, S1, <<"1">>),
   n2    |-> Doc(R11, Y19, <<"6", "0">>, Jan1, <<"0", "0", "2">>, <<"X">>),
   rx    |-> Doc(R11, Y19, <<"6", "0">>, Jan1, S1, <<"x">>),
   r18   |-> Doc(R11, Y18, <<"9", "9">>, Jan1, S1, <<"1">>),
   r21   |-> Doc(R11, Y21, <<"0", "0">>, Jan1, S1, <<"1">>),
   r0230 |-> Doc(R11, Y19, <<"6", "0">>, <<"0", "2", "3", "0">>, S1, <<"1">>),
   r0231 |-> Doc(R11, Y19, <<"6", "0">>, <<"0", "2", "3", "1">>, S1, <<"1">>),
   r0431 |-> Doc(R11, Y19, <<"6", "0">>, <<"0", "4", "3", "1">>, S1, <<"1">>),
   r0631 |-> Doc(R11, Y19, <<"6", "0">>, <<"0", "6", "3", "1">>, S1, <<"1">>),
   r0931 |-> Doc(R11, Y19, <<"6", "0">>, <<"0", "9", "3", "1">>, S1, <<"1">>),
   r1131 |-> Doc(R11, Y19, <<"6", "0">>, <<"1", "1", "3", "1">>, S1, <<"1">>),
   r1301 |-> Doc(R11, Y19, <<"6", "0">>, <<"1", "3", "0", "1">>, S1, <<"1">>),
   r0132 |-> Doc(R11, Y19, <<"6", "0">>, <<"0", "1", "3", "2">>, S1, <<"1">>),
   r17   |-> Doc(R11, Y19, <<"6", "0">>, Jan1, <<"0", "0">>, <<"1">>),
   p8118 |-> Doc(P81, Y18, <<"9", "9">>, Jan1, S1, <<"1">>),
   p8119 |-> Doc(P81, Y19, <<"6", "0">>, Jan1, S1, <<"1">>),
   p8120 |-> Doc(P81, Y20, <<"0", "0">>, Jan1, S1, <<"1">>),
   p8218 |-> Doc(P82, Y18, <<"9", "9">>, Jan1, S1, <<"1">>),
   p8219 |-> Doc(P82, Y19, <<"6", "0">>, Jan1, S1, <<"X">>),
   p8320 |-> Doc(P83, Y20, <<"0", "0">>, Jan1, S1, <<"1">>),
   p83x  |-> Doc(P83, Y19, <<"6", "0">>, Jan1, S1, <<"x">>),
   p8419 |-> Doc(P84, Y19, <<"6", "0">>, Jan1, S1, <<"1">>)]

DocNumbers == DOMAIN Samples

\* (0[1-9]|1[0-2])
MonthPattern(a, b) ==
  \/ a = "0" /\ b \in Digits \ {"0"}
  \/ a = "1" /\ b \in {"0", "1", "2"}

\* (0[1-9]|[12]\d|3[01])
DayPattern(a, b) ==
  \/ a = "0" /\ b \in Digits \ {"0"}
  \/ a \in {"1", "2"} /\ b \in Digits
  \/ a = "3" /\ b \in {"0", "1"}

\* /^[1-9]\d{5}(18|19|20)\d{2}(0[1-9]|1[0-2])(0[1-9]|[12]\d|3[01])\d{3}(\d|X|x)$/
ResidentIdPattern(s) ==
  /\ Len(s) = 18
  /\ s[1] \in Digits \ {"0"}
  /\ \A i \in 2..6 : s[i] \in Digits
  /\ <<s[7], s[8]>> \in {Y18, Y19, Y20}
  /\ s[9] \in Digits /\ s[10] \in Digits
  /\ MonthPattern(s[11], s[12])
  /\ DayPattern(s[13], s[14])
  /\ \A i \in 15..17 : s[i] \in Digits
  /\ s[18] \in Digits \cup {"X", "x"}

\* /^8[123]0000(18|19|20)\d{2}(0[1-9]|1[0-2])(0[1-9]|[12]\d|3[01])\d{3}[\dX]$/
\* with the alternatives of the year prefix as a parameter
PermitPattern(s, centuries) ==
  /\ Len(s) = 18
  /\ s[1] = "8"
  /\ s[2] \in {"1", "2", "3"}
  /\ \A i \in 3..6 : s[i] = "0"
  /\ <<s[7], s[8]>> \in centuries
  /\ s[9] \in Digits /\ s[10] \in Digits
  /\ MonthPattern(s[11], s[12])
  /\ DayPattern(s[13], s[14])
  /\ \A i \in 15..17 : s[i] \in Digits
  /\ s[18] \in Digits \cup {"X"}

\* Joi.string().when('id_type', {switch: ...}): the pattern of the type given;
\* with no id_type no case applies and any string passes; `required` tells
\* whether the cases end in .required() or .optional()
IdNumberRule(id_type, n, centuries, required) ==
  CASE id_type = ResidentId ->
         IF n = Undef THEN ~required ELSE ResidentIdPattern(Samples[n])
    [] id_type = Permit ->
         IF n = Undef THEN ~required ELSE PermitPattern(Samples[n], centuries)
    [] OTHER -> TRUE

\* client.js /application/submit: applicationSchema
ClientSubmitSchema(body) ==
  /\ body.name # Undef
  /\ body.phone_number # Undef
  /\ body.birthday # Undef
  /\ body.id_type \in IdTypes
  /\ IdNumberRule(body.id_type, body.id_number, {Y18, Y19, Y20}, TRUE)
  /\ body.id_front_photo_url # Undef

\* user.js /application/submit: applicationSchema (no birthday key)
UserSubmitSchema(body) ==
  /\ body.name # Undef
  /\ body.phone_number # Undef
  /\ body.birthday = Undef
  /\ body.id_type \in IdTypes
  /\ IdNumberRule(body.id_type, body.id_number, {Y19, Y20}, TRUE)
  /\ body.id_front_photo_url # Undef

\* client.js /application/update: updateSchema
ClientUpdateSchema(body) ==
  /\ body.phone_number # Undef
  /\ body.id_type \in IdTypes \cup {Undef}
  /\ IdNumberRule(body.id_type, body.id_number, {Y19, Y20}, FALSE)

InvalidInput == Res(400, "ValidationError", "schema")

\* a request answered by the schema check, before any connection is taken
Refused(op, u, body) ==
  [Idle EXCEPT !.pc = "done", !.op = op, !.user = u, !.patch = body, !.res = InvalidInput]

CanArrive(p) == req[p].pc \in {"idle", "done"} /\ nreq < MaxReqs

\* client.js POST /application/submit with the request body `body`
SubmitClient(p, u, body) ==
  /\ CanArrive(p)
  /\ IF ClientSubmitSchema(body)
     THEN /\ PoolFree
          /\ IdsLeft > 0
          /\ Issue(p, [ClientSubmitReq(u, body.id_number) EXCEPT !.patch = body])
     ELSE Issue(p, Refused("clientSubmit", u, body))

\* user.js POST /application/submit with the request body `body`
SubmitUser(p, body) ==
  /\ CanArrive(p)
  /\ IF UserSubmitSchema(body)
     THEN /\ PoolFree
          /\ IdsLeft > 0
          /\ Issue(p, [UserSubmitReq(body.id_number) EXCEPT !.patch = body])
     ELSE Issue(p, Refused("userSubmit", NULL, body))

\* client.js POST /application/update with the request body `body`
UpdateClient(p, u, id, body) ==
  /\ CanArrive(p)
  /\ IF ClientUpdateSchema(body)
     THEN PoolFree /\ Issue(p, ClientUpdateReq(u, id, body))
     ELSE Issue(p, Refused("clientUpdate", u, body))

\* request bodies: every document number under every type, and bodies with a
\* missing name or a missing number
Identities ==
  {[id_type |-> t, id_number |-> n] : t \in IdTypes, n \in DocNumbers}
    \cup {[id_type |-> ResidentId, id_number |-> Undef]}

SubmitBody(i, name) ==
  [NoPatch EXCEPT !.name = name, !.phone_number = "p1", !.id_type = i.id_type,
                  !.id_number = i.id_number, !.id_front_photo_url = "f1"]

UserSubmitBodies ==
  {SubmitBody(i, "a") : i \in Identities}
    \cup {SubmitBody([id_type |-> ResidentId, id_number |-> "n1"], Undef)}

ClientSubmitBodies == {[b EXCEPT !.birthday = "1960-01-01"] : b \in UserSubmitBodies}

UpdateBodies ==
  {[NoPatch EXCEPT !.phone_number = "p1", !.id_type = i.id_type,
                   !.id_number = i.id_number] : i \in Identities}
    \cup {[NoPatch EXCEPT !.phone_number = "p1", !.id_number = n] : n \in DocNumbers}
    \cup {[NoPatch EXCEPT !.id_type = ResidentId, !.id_number = "n2"]}

NextValidate ==
  /\ \E p \in Procs :
       \/ \E body \in ClientSubmitBodies : SubmitClient(p, "u1", body)
       \/ \E body \in UserSubmitBodies : SubmitUser(p, body)
       \/ \E body \in UpdateBodies : UpdateClient(p, "u1", 1, body)
       \/ Select(p)
       \/ Rollback(p)
       \/ Update(p)
       \/ Insert(p)
       \/ InsertLog(p)
       \/ Commit(p)
       \/ Catch(p)
  /\ UNCHANGED <<hist, users>>

SpecValidate == Init /\ [][NextValidate]_vars

\* no submit that lacks a required field gets past the schema check
C28_NoneInvalidInFlight ==
  \A p \in Procs :
    (InFlight(p) /\ req[p].op \in SubmitOps) =>
      \A f \in {"name", "phone_number", "id_type", "id_number", "id_front_photo_url"} :
        req[p].patch[f] # Undef

C28_Step ==
  \A p \in Procs :
    LET r == req[p]
    IN  /\ (r.op \in SubmitOps /\ Completes(p) /\ req'[p].res.code = 201) =>
             LET id == req'[p].res.appId
             IN  /\ id \in AppIds
                 /\ apps[id] = NoRow
                 /\ AppLog(audit_log, id) = << >>
                 /\ apps'[id] = [user_id |-> r.user, status |-> "PENDING",
                                 comments |-> NULL, name |-> r.patch.name,
                                 phone_number |-> r.patch.phone_number,
                                 id_type |-> r.patch.id_type,
                                 id_number |-> r.patch.id_number,
                                 id_front_photo_url |-> r.patch.id_front_photo_url]
                 /\ \A j \in AppIds \ {id} : apps'[j] = apps[j]
                 /\ Len(audit_log') = Len(audit_log) + 1
                 /\ SubSeq(audit_log', 1, Len(audit_log)) = audit_log
                 /\ LastEntry(audit_log').application_id = id
                 /\ LastEntry(audit_log').action = "SUBMIT"
        /\ (req'[p] # r /\ req'[p].res = InvalidInput) =>
             /\ ~InFlight(p)
             /\ apps' = apps /\ audit_log' = audit_log /\ nextId' = nextId /\ lock' = lock

\* C28: a submit answered with success has created, in the step that commits
\* it, exactly one application under an id that had no row and no audit entry,
\* with status PENDING, no comments and the field values submitted, and has
\* appended exactly one SUBMIT entry for it; a submit refused by the schema
\* check changes nothing, and no submit that lacks a required field is run.
C28_SubmitCreatesOne == [] C28_NoneInvalidInFlight /\ [][C28_Step]_vars

C28_Witness ==
  \E p, q \in Procs :
    /\ req[p].pc = "done" /\ req[p].res.code = 201
    /\ apps[req[p].res.appId].status = "PENDING"
    /\ apps[req[p].res.appId].user_id = "u1"
    /\ req[q].op \in SubmitOps /\ req[q].res = InvalidInput

\* the number a digit stands for
Num(c) == CHOOSE k \in 0..9 : <<"0", "1", "2", "3", "4", "5", "6", "7", "8", "9">>[k + 1] = c

Leap(y) == (y % 4 = 0 /\ y % 100 # 0) \/ y % 400 = 0

DaysIn(y, m) ==
  IF m \in {4, 6, 9, 11} THEN 30
  ELSE IF m = 2 THEN (IF Leap(y) THEN 29 ELSE 28)
  ELSE 31

\* characters 7 to 14 of a document number are a date of the calendar
CalendarDate(s) ==
  LET y == 1000 * Num(s[7]) + 100 * Num(s[8]) + 10 * Num(s[9]) + Num(s[10])
      m == 10 * Num(s[11]) + Num(s[12])
      d == 10 * Num(s[13]) + Num(s[14])
  IN  m \in 1..12 /\ d \in 1..DaysIn(y, m)

\* a resident-ID number as the specification describes it
WellFormedResidentId(s) ==
  /\ Len(s) = 18
  /\ \A i \in 1..17 : s[i] \in Digits
  /\ s[1] # "0"
  /\ <<s[7], s[8]>> \in {Y18, Y19, Y20}
  /\ CalendarDate(s)
  /\ s[18] \in Digits \cup {"X", "x"}

EntryPoints == {"clientSubmit", "userSubmit", "clientUpdate"}

\* request p carries a type and a number, and its other fields pass the schema
CarriesIdentity(p) ==
  /\ req[p].op \in EntryPoints
  /\ req[p].patch.id_type \in IdTypes
  /\ req[p].patch.id_number # Undef
  /\ req[p].patch.phone_number # Undef
  /\ req[p].op \in SubmitOps => req[p].patch.name # Undef

Accepted(p) == req[p].res # InvalidInput

\* C29: a request with a resident-ID number is accepted by the schema exactly
\* when the number is well formed: its birth date is a date of the calendar
\* (no 02-30, 02-31, 04-31, 06-31, 09-31, 11-31) and its last character is a
\* digit, 'X' or 'x'.
C29_PlausibleBirthDate ==
  \A p \in Procs :
    (CarriesIdentity(p) /\ req[p].patch.id_type = ResidentId) =>
      (Accepted(p) <=> WellFormedResidentId(Samples[req[p].patch.id_number]))

\* C30: two requests carrying the same type and number get the same verdict
\* of the schema, whatever entry point each came through.
C30_SameVerdict ==
  \A p, q \in Procs :
    ( /\ CarriesIdentity(p) /\ CarriesIdentity(q)
      /\ req[p].patch.id_type = req[q].patch.id_type
      /\ req[p].patch.id_number = req[q].patch.id_number )
    => (Accepted(p) <=> Accepted(q))

\* C31: a resubmit answered with success has written, of the fields of the
\* application, only those the patch gives with a value other than the stored
\* one (besides status and comments): a field the patch leaves out or gives
\* with the stored value keeps its value, the owner stays, the row stays under
\* its id and no other application changes.
C31_ResubmitFrame ==
  [][\A p \in Procs :
       (Completes(p) /\ IsResubmit(req[p]) /\ req'[p].res = Updated) =>
         LET r   == req[p]
             old == apps[r.id]
             new == apps'[r.id]
         IN  /\ old # NoRow /\ new # NoRow
             /\ \A f \in {"name", "phone_number", "id_type", "id_number",
                          "id_front_photo_url"} :
                  IF r.patch[f] = Undef \/ r.patch[f] = old[f]
                  THEN new[f] = old[f]
                  ELSE new[f] = r.patch[f]
             /\ new.user_id = old.user_id
             /\ \A j \in AppIds \ {r.id} : apps'[j] = apps[j]]_vars

\* a committed client.js resubmit whose patch gave a new name, the stored
\* phone number and no identity number
C31_Witness ==
  \E p \in Procs :
    /\ req[p].res = Updated
    /\ apps[1].name = "b" /\ apps[1].phone_number = "p1" /\ apps[1].id_number = "n1"
    /\ apps[1].status = "PENDING" /\ apps[1].user_id = "u1"
    /\ LastEntry(AppLog(audit_log, 1)).user_id = "u1"
    /\ LastEntry(AppLog(audit_log, 1)).action = "RESUBMIT"

\* C32: a decide with verdict APPROVED, with any remarks or none, that read
\* PENDING and met no storage failure succeeds; it sets the status to APPROVED
\* and the comments to the remarks (null when they are absent or empty) and
\* leaves every other field of the application and every other application as
\* they were.  A cancel answered with success changes the status alone.
C32_ApproveAndCancelFrame ==
  [][\A p \in Procs :
       LET r == req[p]
       IN  /\ ( /\ Completes(p)
                /\ r.op = "operate" /\ r.action = "APPROVED"
                /\ NoStorageError(r)
                /\ r.row # NoRow /\ r.row.status = "PENDING" )
              => /\ req'[p].res = Operated("APPROVED")
                 /\ apps'[r.id] =
                      [apps[r.id] EXCEPT !.status = "APPROVED",
                         !.comments = IF r.comments \in {Undef, ""} THEN NULL
                                      ELSE r.comments]
                 /\ \A j \in AppIds \ {r.id} : apps'[j] = apps[j]
           /\ (Completes(p) /\ IsCancel(r) /\ req'[p].res = Cancelled)
              => /\ apps'[r.id] = [apps[r.id] EXCEPT !.status = "CANCELLED"]
                 /\ \A j \in AppIds \ {r.id} : apps'[j] = apps[j]]_vars

\* an approval without remarks has been committed
C32_Witness ==
  \E p \in Procs :
    /\ req[p].res = Operated("APPROVED")
    /\ apps[1] = [PendingDb.apps[1] EXCEPT !.status = "APPROVED"]
    /\ LastEntry(AppLog(audit_log, 1)).remarks = NULL

FailureKinds ==
  {"NotFound", "Forbidden", "IllegalTransition", "ValidationError",
   "NoEffectiveChange", "DuplicateIdentity", "RoleDenied"}

\* C33: the step in which a request is answered with a failure changes no
\* application and not the audit log, and a cancel, resubmit or decide whose
\* locking read found no row is answered NotFound, whatever its caller, verdict,
\* remarks or patch.
C33_FailureChangesNothing ==
  [][\A p \in Procs :
       /\ (req'[p] # req[p] /\ req'[p].pc = "done" /\ req'[p].res.kind \in FailureKinds)
            => (apps' = apps /\ audit_log' = audit_log)
       /\ ( /\ Completes(p)
            /\ req[p].op \notin SubmitOps
            /\ NoStorageError(req[p])
            /\ req[p].row = NoRow )
            => req'[p].res = NotFound]_vars

\* a request on an unknown id has been answered NotFound while a rejection
\* without remarks on the same unknown id has found no row
C33_Witness ==
  \E p, q \in Procs :
    /\ apps[2] = NoRow
    /\ req[p].pc = "done" /\ req[p].res = NotFound
    /\ req[q].pc = "rollback" /\ req[q].id = 2 /\ req[q].row = NoRow
    /\ req[q].op = "operate" /\ req[q].action = "REJECTED" /\ Blank(req[q].comments)

\* C34: in every committed state each application has audit entries and the
\* newest of them is SUBMIT or RESUBMIT exactly when the status is PENDING,
\* CANCEL exactly when it is CANCELLED, APPROVED exactly when it is APPROVED
\* and REJECTED exactly when it is REJECTED.
C34_NewestEntryAgrees ==
  \A i \in AppIds :
    apps[i] # NoRow =>
      LET log == AppLog(audit_log, i)
          a   == LastEntry(log).action
          st  == apps[i].status
      IN  /\ log # << >>
          /\ (a \in {"SUBMIT", "RESUBMIT"}) <=> (st = "PENDING")
          /\ (a = "CANCEL") <=> (st = "CANCELLED")
          /\ (a = "APPROVED") <=> (st = "APPROVED")
          /\ (a = "REJECTED") <=> (st = "REJECTED")

\* a user.js resubmit has been committed
C34_Witness ==
  \E p \in Procs :
    /\ req[p].res = Updated
    /\ apps[1].status = "PENDING"
    /\ LastEntry(AppLog(audit_log, 1)).action = "RESUBMIT"
    /\ LastEntry(AppLog(audit_log, 1)).user_id = "customer"

\* C35: in every reachable state an application whose status is REJECTED has
\* comments that are not null and hold a character other than white space.
C35_RejectedHasReason ==
  \A i \in AppIds :
    apps[i].status = "REJECTED" =>
      /\ apps[i].comments # NULL
      /\ ~Blank(apps[i].comments)

\* a rejection has been committed by a decide of this run
C35_Witness ==
  \E p \in Procs :
    /\ req[p].res = Operated("REJECTED")
    /\ apps[1].status = "REJECTED"
    /\ apps[1].comments = "photo unreadable"
    /\ Actions(AppLog(audit_log, 1)) = <<"SUBMIT", "REJECTED">>

\* the stored number has the pattern of the stored type (for a permit, with
\* each year prefix some entry point accepts)
StoredConforms(row) ==
  CASE row.id_type = ResidentId -> ResidentIdPattern(Samples[row.id_number])
    [] row.id_type = Permit -> PermitPattern(Samples[row.id_number], {Y18, Y19, Y20})
    [] OTHER -> FALSE

\* C36: in every reachable state the stored document number of each
\* application has the pattern that the schema requires for its stored
\* document type.
C36_StoredNumberConforms ==
  \A i \in AppIds : apps[i] # NoRow => StoredConforms(apps[i])

\* ------------------------------------------------------------ registration
\* POST /register: a SELECT for the phone number, bcrypt.hash, then the INSERT,
\* on one pooled connection in autocommit mode: no transaction, no lock.
PhoneTaken == Res(409, "PhoneTaken", NULL)
Registered(id) == [code |-> 201, kind |-> "OK", info |-> "REGISTER", appId |-> id]

RegisterReq(name, phone) ==
  [Idle EXCEPT !.pc = "checkPhone", !.conn = 1, !.op = "register",
               !.patch = [NoPatch EXCEPT !.name = name, !.phone_number = phone]]

\* registerSchema: phone_number is required
StartRegister(p, name, phone) ==
  /\ CanStart(p)
  /\ Issue(p, IF phone = Undef THEN DoneReq(RegisterReq(name, phone), InvalidInput)
              ELSE RegisterReq(name, phone))
  /\ UNCHANGED <<hist, users>>

HasPhone(rows, phone) == \E i \in 1..Len(rows) : rows[i].phone_number = phone

\* SELECT id FROM users WHERE phone_number = ?, and the 409 when a row is found
CheckPhone(p) ==
  LET r == req[p]
  IN  /\ r.pc = "checkPhone"
      /\ req' = [req EXCEPT ![p] =
                   IF HasPhone(users, r.patch.phone_number) THEN DoneReq(r, PhoneTaken)
                   ELSE [r EXCEPT !.pc = "insertUser"]]
      /\ UNCHANGED <<apps, audit_log, nextId, lock, nreq, hist, users>>

\* INSERT INTO users ..., and the 201.  No file of src/ declares the users
\* table: when the phone number is already stored the INSERT adds a second row
\* (no unique index) or fails with ER_DUP_ENTRY (unique index), which the
\* catch block answers with 500.
InsertUser(p) ==
  LET r == req[p]
  IN  /\ r.pc = "insertUser"
      /\ \/ /\ users' = Append(users, [name |-> r.patch.name,
                                       phone_number |-> r.patch.phone_number,
                                       role |-> "customer"])
            /\ req' = [req EXCEPT ![p] = DoneReq(r, Registered(Len(users) + 1))]
         \/ /\ HasPhone(users, r.patch.phone_number)
            /\ users' = users
            /\ req' = [req EXCEPT ![p] = DoneReq(r, StorageFailure)]
      /\ UNCHANGED <<apps, audit_log, nextId, lock, nreq, hist>>

NextRegister ==
  \E p \in Procs :
    \/ \E name \in {"a", "b"}, phone \in {"p1", "p2", Undef} : StartRegister(p, name, phone)
    \/ CheckPhone(p)
    \/ InsertUser(p)

SpecRegister == Init /\ [][NextRegister]_vars

\* C37: no two rows of the users table hold the same phone number, and every
\* registration is answered with success, with the conflict response or with
\* the refusal of its input.
C37_UniquePhone ==
  /\ \A i, j \in 1..Len(users) :
       i # j => users[i].phone_number # users[j].phone_number
  /\ \A p \in Procs :
       req[p].pc = "done" => req[p].res.code \in {201, 409, 400}

\* ------------------------------------------------------- the customer query
\* POST /application/query of client.js, behind router.use(authenticate).
Unauthenticated == Res(401, "Unauthenticated", NULL)

QueryReq(u) == [Idle EXCEPT !.pc = "query", !.conn = 1, !.op = "query", !.user = u]

\* authenticate: no req.user, and no handler, without a valid Bearer token
StartQuery(p, u) ==
  /\ CanStart(p)
  /\ Issue(p, IF u = NULL THEN DoneReq(QueryReq(u), Unauthenticated) ELSE QueryReq(u))

\* the ids in S, largest first
RECURSIVE OrderByIdDesc(_)
OrderByIdDesc(S) ==
  IF S = {} THEN << >>
  ELSE LET m == CHOOSE x \in S : \A y \in S : y <= x
       IN  <<m>> \o OrderByIdDesc(S \ {m})

\* the columns of the SELECT list: user_id is not among them
Selected(id, row) ==
  [id |-> id, status |-> row.status, comments |-> row.comments, name |-> row.name,
   phone_number |-> row.phone_number, id_type |-> row.id_type,
   id_number |-> row.id_number, id_front_photo_url |-> row.id_front_photo_url]

\* faulty variant: a query with no WHERE clause
QueryResultAll(db, u) ==
  LET ids == OrderByIdDesc({id \in AppIds : db[id] # NoRow})
  IN  [i \in 1..Len(ids) |-> Selected(ids[i], db[ids[i]])]

\* SELECT ... FROM application_info WHERE user_id = ? ORDER BY id DESC
QueryResult(db, u) ==
  LET ids == OrderByIdDesc({id \in AppIds : db[id] # NoRow /\ db[id].user_id = u})
  IN  [i \in 1..Len(ids) |-> Selected(ids[i], db[ids[i]])]

Applications(rows) == Res(200, "Applications", rows)

\* 404 when no row was found, else 200 with the rows as data
QueryAnswer(db, u) ==
  LET rows == QueryResult(db, u)
  IN  IF Len(rows) = 0 THEN NotFound ELSE Applications(rows)

Query(p) ==
  LET r == req[p]
  IN  /\ r.pc = "query"
      /\ req' = [req EXCEPT ![p] = DoneReq(r, QueryAnswer(apps, r.user))]
      /\ UNCHANGED <<apps, audit_log, nextId, lock, nreq>>

\* the query is rejected by the storage: the catch block answers 500
QueryFail(p) ==
  LET r == req[p]
  IN  /\ r.pc = "query"
      /\ req' = [req EXCEPT ![p] = DoneReq(r, StorageFailure)]
      /\ UNCHANGED <<apps, audit_log, nextId, lock, nreq>>

\* queries next to submissions, resubmissions, cancellations and decisions
NextQuery ==
  /\ \E p \in Procs :
       \/ \E u \in Principals \cup {NULL} : StartQuery(p, u)
       \/ Query(p)
       \/ QueryFail(p)
       \/ \E u \in Customers, n \in IdNumbers : StartClientSubmit(p, u, n)
       \/ \E n \in IdNumbers : StartUserSubmit(p, n)
       \/ \E u \in Customers, id \in AppIds : StartClientCancel(p, u, id)
       \/ \E u \in Auditors, id \in AppIds, d \in ValidDecisions :
            StartOperate(p, u, id, d.action, d.comments)
       \/ Select(p)
       \/ Rollback(p)
       \/ Update(p)
       \/ Insert(p)
       \/ InsertLog(p)
       \/ Commit(p)
  /\ UNCHANGED <<hist, users>>

SpecQuery == Init /\ [][NextQuery]_vars

\* the applications of owner u are the same rows in db1 and db2
SameOwn(db1, db2, u) ==
  \A id \in AppIds :
    (db1[id].user_id = u \/ db2[id].user_id = u) => db1[id] = db2[id]

\* C38: a query answered with data returns exactly the stored applications
\* whose owner is the caller, and answers 404 exactly when there is none; a
\* step that changes no application of a principal leaves the answer to that
\* principal's query unchanged.
C38_QueryOwnOnly ==
  [][/\ \A p \in Procs :
          (req[p].pc = "query" /\ req'[p].pc = "done" /\ req'[p].res # StorageFailure) =>
            LET caller == req[p].user
                res  == req'[p].res
                own  == {id \in AppIds : apps[id] # NoRow /\ apps[id].user_id = caller}
            IN  /\ res.code \in {200, 404}
                /\ res.code = 404 <=> own = {}
                /\ res.code = 200 =>
                     /\ {res.info[i].id : i \in 1..Len(res.info)} = own
                     /\ Len(res.info) = Cardinality(own)
                     /\ \A i \in 1..Len(res.info) :
                          res.info[i] = Selected(res.info[i].id, apps[res.info[i].id])
      /\ \A u \in Principals :
           SameOwn(apps, apps', u) => QueryAnswer(apps', u) = QueryAnswer(apps, u)]_vars

\* u1's query returned u1's only application while one of another owner is stored
C38_Witness ==
  \E p \in Procs :
    /\ req[p].pc = "done"
    /\ req[p].res.kind = "Applications"
    /\ Len(req[p].res.info) = 1
    /\ apps[req[p].res.info[1].id].user_id = "u1"
    /\ \E id \in AppIds : apps[id] # NoRow /\ apps[id].user_id \notin {"u1"}

====
